---- MODULE Spec2Model ----
(***************************************************************************)
(* RawStruct derive macro (raw_struct_macro/src/lib.rs) and the CSV driver *)
(* (src/main.rs).  The macro turns a struct declaration into a raw struct  *)
(* whose fields are all Option<String>, plus a validate() that checks each *)
(* raw text against the declared field type.                               *)
(*                                                                         *)
(* A text is a sequence of characters (one-character strings), so Len is   *)
(* chars().count().  Option<T> is a sequence of length at most one.        *)
(* str::parse of the standard library is modelled from its documented      *)
(* behaviour (Rust >= 1.55): integer parsing scans left to right and       *)
(* stops at the first error; decimal values are compared as digit strings  *)
(* so that all widths up to 128 bits are covered.                          *)
(***************************************************************************)
EXTENDS Integers, Sequences, FiniteSets, TLC

\* Longest text enumerated exhaustively over Alphabet.
MaxLen == 2
\* Most fields of a struct handed to the derive macro in Spec.
NFields == 2
\* Most rows of the driver's input in Spec.
MaxRows == 2

VARIABLES
  schema,   \* the per-field rules the macro expanded into validate()
  raw,      \* the RawRecord of the current row: one Option<String> per field
  errors,   \* the ValidationErrors built by the last validate() call
  result,   \* what the last validate() call returned: "Ok", "Err" ("none" before)
  pc,       \* "derive", then per row "read" -> "validate" -> "print", then "done"
  read,     \* rows deserialized so far
  given,    \* history: the current row as deserialize() returned it
  prev      \* history: the row and report of the previous loop iteration

vars == <<schema, raw, errors, result, pc, read, given, prev>>

None == <<>>
Some(v) == <<v>>
IsSome(o) == Len(o) = 1
IsNone(o) == Len(o) = 0
Unwrap(o) == o[1]

(***************************** texts ***************************************)
Digits == {"0","1","2","3","4","5","6","7","8","9"}

Alphabet == {"-", "+", "1", ".", "e", "t"}

RECURSIVE StringsUpTo(_)
StringsUpTo(n) ==
  IF n = 0 THEN {<<>>}
  ELSE LET shorter == StringsUpTo(n - 1)
       IN  shorter \cup {Append(s, c) : s \in {t \in shorter : Len(t) = n - 1}, c \in Alphabet}

\* Values of the kinds the checks distinguish, among them the cells of
\* csv_data in main.rs.
Curated ==
  {
    <<"0">>,   \* 0
    <<"2","0">>,   \* 20
    <<"2","5","5">>,   \* 255
    <<"2","5","6">>,   \* 256
    <<"3","0","0">>,   \* 300
    <<"9","9","9","a">>,   \* 999a
    <<"1","2","a">>,   \* 12a
    <<"0","0","7">>,   \* 007
    <<"+","5">>,   \* +5
    <<"+","3","0","0">>,   \* +300
    <<"1","2","7">>,   \* 127
    <<"1","2","8">>,   \* 128
    <<"-","1","2","8">>,   \* -128
    <<"-","1","2","9">>,   \* -129
    <<"-","3","2","3","2">>,   \* -3232
    <<"-","3","0","0">>,   \* -300
    <<"-","a","b","c">>,   \* -abc
    <<"-","0">>,   \* -0
    <<"6","5","5","3","5">>,   \* 65535
    <<"6","5","5","3","6">>,   \* 65536
    <<"3","2","7","6","7">>,   \* 32767
    <<"3","2","7","6","8">>,   \* 32768
    <<"-","3","2","7","6","8">>,   \* -32768
    <<"-","3","2","7","6","9">>,   \* -32769
    <<"4","3","4","3","4","5","3","2","4","3","2","4","3","2","4","3","2">>,   \* 43434532432432432
    <<"2","1","4","7","4","8","3","6","4","7">>,   \* 2147483647
    <<"2","1","4","7","4","8","3","6","4","8">>,   \* 2147483648
    <<"-","2","1","4","7","4","8","3","6","4","8">>,   \* -2147483648
    <<"-","2","1","4","7","4","8","3","6","4","9">>,   \* -2147483649
    <<"4","2","9","4","9","6","7","2","9","5">>,   \* 4294967295
    <<"4","2","9","4","9","6","7","2","9","6">>,   \* 4294967296
    <<"1","8","4","4","6","7","4","4","0","7","3","7","0","9","5","5","1","6","1","5">>,   \* 18446744073709551615
    <<"1","8","4","4","6","7","4","4","0","7","3","7","0","9","5","5","1","6","1","6">>,   \* 18446744073709551616
    <<"9","2","2","3","3","7","2","0","3","6","8","5","4","7","7","5","8","0","7">>,   \* 9223372036854775807
    <<"9","2","2","3","3","7","2","0","3","6","8","5","4","7","7","5","8","0","8">>,   \* 9223372036854775808
    <<"-","9","2","2","3","3","7","2","0","3","6","8","5","4","7","7","5","8","0","8">>,   \* -9223372036854775808
    <<"-","9","2","2","3","3","7","2","0","3","6","8","5","4","7","7","5","8","0","9">>,   \* -9223372036854775809
    <<"3","4","0","2","8","2","3","6","6","9","2","0","9","3","8","4","6","3","4","6","3","3","7","4","6","0","7","4","3","1","7","6","8","2","1","1","4","5","5">>,   \* 340282366920938463463374607431768211455
    <<"3","4","0","2","8","2","3","6","6","9","2","0","9","3","8","4","6","3","4","6","3","3","7","4","6","0","7","4","3","1","7","6","8","2","1","1","4","5","6">>,   \* 340282366920938463463374607431768211456
    <<"1","7","0","1","4","1","1","8","3","4","6","0","4","6","9","2","3","1","7","3","1","6","8","7","3","0","3","7","1","5","8","8","4","1","0","5","7","2","7">>,   \* 170141183460469231731687303715884105727
    <<"1","7","0","1","4","1","1","8","3","4","6","0","4","6","9","2","3","1","7","3","1","6","8","7","3","0","3","7","1","5","8","8","4","1","0","5","7","2","8">>,   \* 170141183460469231731687303715884105728
    <<"-","1","7","0","1","4","1","1","8","3","4","6","0","4","6","9","2","3","1","7","3","1","6","8","7","3","0","3","7","1","5","8","8","4","1","0","5","7","2","8">>,   \* -170141183460469231731687303715884105728
    <<"-","1","7","0","1","4","1","1","8","3","4","6","0","4","6","9","2","3","1","7","3","1","6","8","7","3","0","3","7","1","5","8","8","4","1","0","5","7","2","9">>,   \* -170141183460469231731687303715884105729
    <<"t","r","u","e">>,   \* true
    <<"f","a","l","s","e">>,   \* false
    <<"T","R","U","E">>,   \* TRUE
    <<"T","r","u","e">>,   \* True
    <<"F","A","L","S","E">>,   \* FALSE
    <<"y","e","s">>,   \* yes
    <<"2">>,   \* 2
    <<" ","t","r","u","e">>,   \* _true
    <<"t","r","u","e"," ">>,   \* true_
    <<"t","r","u">>,   \* tru
    <<"1",".","5">>,   \* 1.5
    <<"-","1",".","5","e","3">>,   \* -1.5e3
    <<"1","e","-","2">>,   \* 1e-2
    <<".","5">>,   \* .5
    <<"5",".">>,   \* 5.
    <<"1","e","5","x">>,   \* 1e5x
    <<"e","5">>,   \* e5
    <<"i","n","f">>,   \* inf
    <<"-","i","n","f">>,   \* -inf
    <<"N","a","N">>,   \* NaN
    <<"i","n","f","i","n","i","t","y">>,   \* infinity
    <<"i","n","f","i","n","i","t">>,   \* infinit
    <<"1",".","5",".","2">>,   \* 1.5.2
    <<"1","E","5">>,   \* 1E5
    <<"f","o","o">>,   \* foo
    <<"f","o","o","b","a">>,   \* fooba
    <<"f","o","o","b","a","r">>,   \* foobar
    <<"h","e","l","l","o">>,   \* hello
    <<"w","o","r","l","d">>,   \* world
    <<"b","a","z">>,   \* baz
    <<"q","u","x">>,   \* qux
    <<"x">>   \* x
  }

Texts == StringsUpTo(MaxLen) \cup Curated

\* A cell of a raw record: Option<String>.
Cells == {None} \cup {Some(t) : t \in Texts}

\* <int>::MAX as decimal digits.
IntMax(ty) ==
  CASE ty = "u8" -> <<"2","5","5">>
    [] ty = "u16" -> <<"6","5","5","3","5">>
    [] ty = "u32" -> <<"4","2","9","4","9","6","7","2","9","5">>
    [] ty = "u64" -> <<"1","8","4","4","6","7","4","4","0","7","3","7","0","9","5","5","1","6","1","5">>
    [] ty = "u128" -> <<"3","4","0","2","8","2","3","6","6","9","2","0","9","3","8","4","6","3","4","6","3","3","7","4","6","0","7","4","3","1","7","6","8","2","1","1","4","5","5">>
    [] ty = "i8" -> <<"1","2","7">>
    [] ty = "i16" -> <<"3","2","7","6","7">>
    [] ty = "i32" -> <<"2","1","4","7","4","8","3","6","4","7">>
    [] ty = "i64" -> <<"9","2","2","3","3","7","2","0","3","6","8","5","4","7","7","5","8","0","7">>
    [] ty = "i128" -> <<"1","7","0","1","4","1","1","8","3","4","6","0","4","6","9","2","3","1","7","3","1","6","8","7","3","0","3","7","1","5","8","8","4","1","0","5","7","2","7">>

\* Magnitude of <int>::MIN as decimal digits.
IntMinMagnitude(ty) ==
  CASE ty = "u8" -> <<"0">>
    [] ty = "u16" -> <<"0">>
    [] ty = "u32" -> <<"0">>
    [] ty = "u64" -> <<"0">>
    [] ty = "u128" -> <<"0">>
    [] ty = "i8" -> <<"1","2","8">>
    [] ty = "i16" -> <<"3","2","7","6","8">>
    [] ty = "i32" -> <<"2","1","4","7","4","8","3","6","4","8">>
    [] ty = "i64" -> <<"9","2","2","3","3","7","2","0","3","6","8","5","4","7","7","5","8","0","8">>
    [] ty = "i128" -> <<"1","7","0","1","4","1","1","8","3","4","6","0","4","6","9","2","3","1","7","3","1","6","8","7","3","0","3","7","1","5","8","8","4","1","0","5","7","2","8">>

(********************** str::parse::<integer>() ****************************)
UnsignedTypes == {"u8", "u16", "u32", "u64", "u128"}
SignedTypes == {"i8", "i16", "i32", "i64", "i128"}
FloatTypes == {"f32", "f64"}

DigitValue == [c \in Digits |->
  CASE c = "0" -> 0 [] c = "1" -> 1 [] c = "2" -> 2 [] c = "3" -> 3 [] c = "4" -> 4
    [] c = "5" -> 5 [] c = "6" -> 6 [] c = "7" -> 7 [] c = "8" -> 8 [] c = "9" -> 9]

RECURSIVE StripZeros(_)
StripZeros(ds) ==
  IF Len(ds) > 1 /\ ds[1] = "0" THEN StripZeros(Tail(ds)) ELSE ds

\* a > b for decimal digit strings without leading zeros.
DigitsGreater(a, b) ==
  \/ Len(a) > Len(b)
  \/ /\ Len(a) = Len(b)
     /\ \E i \in 1..Len(a) :
          /\ DigitValue[a[i]] > DigitValue[b[i]]
          /\ \A j \in 1..(i - 1) : a[j] = b[j]

\* The digit loop of from_str_radix: each character is converted
\* (InvalidDigit), then the accumulator is multiplied and added to with
\* overflow checks; the first failure ends the parse.
RECURSIVE ScanDigits(_, _, _, _)
ScanDigits(digits, i, limit, overflow) ==
  IF i > Len(digits) THEN "Ok"
  ELSE IF digits[i] \notin Digits THEN "InvalidDigit"
  ELSE IF DigitsGreater(StripZeros(SubSeq(digits, 1, i)), limit) THEN overflow
  ELSE ScanDigits(digits, i + 1, limit, overflow)

\* <ty as FromStr>::from_str for the integer types: "Ok" or the IntErrorKind.
ParseInt(ty, src) ==
  IF Len(src) = 0 THEN "Empty"
  ELSE IF src[1] \in {"+", "-"} /\ Len(src) = 1 THEN "InvalidDigit"
  ELSE IF src[1] = "+" THEN ScanDigits(Tail(src), 1, IntMax(ty), "PosOverflow")
  ELSE IF src[1] = "-" /\ ty \in SignedTypes
       THEN ScanDigits(Tail(src), 1, IntMinMagnitude(ty), "NegOverflow")
  ELSE ScanDigits(src, 1, IntMax(ty), "PosOverflow")

\* Display of ParseIntError.
IntErrorToString(kind) ==
  CASE kind = "Empty" -> "cannot parse integer from empty string"
    [] kind = "InvalidDigit" -> "invalid digit found in string"
    [] kind = "PosOverflow" -> "number too large to fit in target type"
    [] kind = "NegOverflow" -> "number too small to fit in target type"

\* e.to_string().contains("invalid digit")
ContainsInvalidDigit(msg) == msg = "invalid digit found in string"

(*********************** str::parse::<float>() ******************************)
RECURSIVE SkipDigits(_, _)
SkipDigits(s, i) ==
  IF i <= Len(s) /\ s[i] \in Digits THEN SkipDigits(s, i + 1) ELSE i

ToLowerChar(c) ==
  CASE c = "T" -> "t" [] c = "R" -> "r" [] c = "U" -> "u" [] c = "E" -> "e"
    [] c = "F" -> "f" [] c = "A" -> "a" [] c = "L" -> "l" [] c = "S" -> "s"
    [] c = "N" -> "n" [] OTHER -> c

\* str::to_lowercase
ToLowercase(s) == [i \in 1..Len(s) |-> ToLowerChar(s[i])]

\* Digit+ | Digit+ '.' Digit* | Digit* '.' Digit+, then an optional exponent.
IsDecimalNumber(s) ==
  LET a == SkipDigits(s, 1)
      hasDot == a <= Len(s) /\ s[a] = "."
      b == IF hasDot THEN SkipDigits(s, a + 1) ELSE a
      nDigits == (a - 1) + (IF hasDot THEN b - (a + 1) ELSE 0)
      c == IF b + 1 <= Len(s) /\ s[b + 1] \in {"+", "-"} THEN b + 2 ELSE b + 1
      d == SkipDigits(s, c)
  IN  /\ nDigits > 0
      /\ \/ b > Len(s)
         \/ /\ s[b] \in {"e", "E"}
            /\ d > c
            /\ d > Len(s)

IsInfOrNan(s) ==
  ToLowercase(s) \in {<<"n","a","n">>, <<"i","n","f">>,
                      <<"i","n","f","i","n","i","t","y">>}

\* <f32/f64 as FromStr>::from_str succeeds.
ParseFloatOk(src) ==
  LET s == IF Len(src) > 0 /\ src[1] \in {"+", "-"} THEN Tail(src) ELSE src
  IN  Len(s) > 0 /\ (IsDecimalNumber(s) \/ IsInfOrNan(s))

\* <char as FromStr>::from_str succeeds: exactly one character.
ParseCharOk(src) == Len(src) = 1

\* <bool as FromStr>::from_str succeeds.
ParseBoolOk(src) == src \in {<<"t","r","u","e">>, <<"f","a","l","s","e">>}

\* value.parse::<ty>() succeeds, for every type name of the model.
ParseOk(ty, src) ==
  CASE ty \in UnsignedTypes \cup SignedTypes -> ParseInt(ty, src) = "Ok"
    [] ty \in FloatTypes -> ParseFloatOk(src)
    [] ty = "bool" -> ParseBoolOk(src)
    [] ty = "String" -> TRUE
    [] ty = "char" -> ParseCharOk(src)

(************************* the derive macro *********************************)
\* A declared field type: a path segment and its generic arguments.
Ty(name) == [segment |-> name, args |-> <<>>]
OptionOf(name) == [segment |-> "Option", args |-> <<Ty(name)>>]

TypeNames == UnsignedTypes \cup SignedTypes \cup FloatTypes \cup {"bool", "String", "char"}

FieldTypes == {Ty(n) : n \in TypeNames} \cup {OptionOf(n) : n \in TypeNames}

\* name = literal items inside #[validate(...)]; a literal is an integer
\* or something else (here a string literal).
IntLit(n) == [int |-> TRUE, value |-> n]
StrLit == [int |-> FALSE, value |-> 0]
MetaItems ==
  {[path |-> p, lit |-> l] : p \in {"min_length", "max_length"}, l \in {IntLit(2), IntLit(5)}}
    \cup {[path |-> "min_length", lit |-> StrLit], [path |-> "length", lit |-> IntLit(2)]}

AttrLists == {<<>>} \cup {<<a>> : a \in MetaItems} \cup {<<a, b>> : a, b \in MetaItems}

FieldNames == <<"a", "b", "c", "d">>

\* The fields of Record in main.rs.
RecordFields ==
  << [ty |-> OptionOf("u16"), attrs |-> <<>>],
     [ty |-> OptionOf("i32"), attrs |-> <<>>],
     [ty |-> Ty("String"), attrs |-> <<[path |-> "min_length", lit |-> IntLit(5)]>>],
     [ty |-> OptionOf("String"), attrs |-> <<[path |-> "min_length", lit |-> IntLit(5)]>>] >>

\* Cells of csv_data in main.rs: an empty cell, "20", "-3232" and
\* "43434532432432432".
RecordCells ==
  {None, Some(<<"2","0">>), Some(<<"-","3","2","3","2">>),
   Some(<<"4","3","4","3","4","5","3","2","4","3","2","4","3","2","4","3","2">>)}

RECURSIVE parse_string_validation_from(_, _, _)
parse_string_validation_from(attrs, i, validation) ==
  IF i > Len(attrs) THEN validation
  ELSE LET nv == attrs[i]
           next == IF nv.path = "min_length" /\ nv.lit.int
                     THEN [validation EXCEPT !.min_length = Some(nv.lit.value)]
                   ELSE IF nv.path = "max_length" /\ nv.lit.int
                     THEN [validation EXCEPT !.max_length = Some(nv.lit.value)]
                   ELSE validation
       IN  parse_string_validation_from(attrs, i + 1, next)

parse_string_validation(attrs) ==
  parse_string_validation_from(attrs, 1, [min_length |-> None, max_length |-> None])

is_option_type(ty) == ty.segment = "Option"

get_inner_type(ty) ==
  IF ty.segment = "Option" /\ Len(ty.args) > 0 THEN Some(ty.args[1]) ELSE None

\* quote!(#base_type).to_string()
TypeStr(ty) == ty.segment

\* What the macro fixes per field at expansion time.
FieldRule(name, f) ==
  LET is_optional == is_option_type(f.ty)
      base_type == IF is_optional THEN Unwrap(get_inner_type(f.ty)) ELSE f.ty
  IN  [field_name |-> name,
       is_optional |-> is_optional,
       type_str |-> TypeStr(base_type),
       validation |-> parse_string_validation(f.attrs)]

validation_checks(fields) == [i \in 1..Len(fields) |-> FieldRule(FieldNames[i], fields[i])]

(********************** validator::ValidationErrors *************************)
\* Mutant: the report of the previous call is reused instead of a new one.
ValidationErrorsStale == errors

ValidationErrorsNew == << >>

ValidationError(code, kind, args) == [code |-> code, message |-> [kind |-> kind, args |-> args]]

\* errors.add(field, err): a map from field name to the list of its errors.
ErrorsAdd(errs, field, err) ==
  IF field \in DOMAIN errs
    THEN [errs EXCEPT ![field] = Append(@, err)]
    ELSE [k \in DOMAIN errs \cup {field} |-> IF k = field THEN <<err>> ELSE errs[k]]

ErrorsIsEmpty(errs) == DOMAIN errs = {}

(************************* the generated validate() *************************)
\* Mutant: the optional test is inverted.
required_check_inverted(rule, value, errs) ==
  IF rule.is_optional /\ IsNone(value)
    THEN ErrorsAdd(errs, rule.field_name,
                   ValidationError(rule.field_name, "RequiredFieldMissing", <<rule.field_name>>))
    ELSE errs

\* Mutant: the optional test is missing.
required_check_all(rule, value, errs) ==
  IF IsNone(value)
    THEN ErrorsAdd(errs, rule.field_name,
                   ValidationError(rule.field_name, "RequiredFieldMissing", <<rule.field_name>>))
    ELSE errs

\* Mutant: the is_none test is missing.
required_check_unguarded(rule, value, errs) ==
  IF ~rule.is_optional
    THEN ErrorsAdd(errs, rule.field_name,
                   ValidationError(rule.field_name, "RequiredFieldMissing", <<rule.field_name>>))
    ELSE errs

required_check(rule, value, errs) ==
  IF ~rule.is_optional /\ IsNone(value)
    THEN ErrorsAdd(errs, rule.field_name,
                   ValidationError(rule.field_name, "RequiredFieldMissing", <<rule.field_name>>))
    ELSE errs

\* Mutant: the starts_with('-') arm is missing.
unsigned_check_no_minus_arm(rule, v, errs) ==
  LET e == ParseInt(rule.type_str, v)
  IN  IF e = "Ok" THEN errs
      ELSE IF ContainsInvalidDigit(IntErrorToString(e))
        THEN ErrorsAdd(errs, rule.field_name,
               ValidationError(rule.field_name, "MalformedNumber", <<rule.field_name, v>>))
      ELSE ErrorsAdd(errs, rule.field_name,
               ValidationError(rule.field_name, "OutOfRange",
                 <<rule.field_name, v, rule.type_str, <<"0">>, IntMax(rule.type_str)>>))

unsigned_check(rule, v, errs) ==
  IF Len(v) > 0 /\ v[1] = "-"
    THEN ErrorsAdd(errs, rule.field_name,
           ValidationError(rule.field_name, "NegativeValueForUnsigned",
                           <<rule.field_name, v, rule.type_str>>))
  ELSE LET e == ParseInt(rule.type_str, v)
       IN  IF e = "Ok" THEN errs
           ELSE IF ContainsInvalidDigit(IntErrorToString(e))
             THEN ErrorsAdd(errs, rule.field_name,
                    ValidationError(rule.field_name, "MalformedNumber", <<rule.field_name, v>>))
           ELSE ErrorsAdd(errs, rule.field_name,
                    ValidationError(rule.field_name, "OutOfRange",
                      <<rule.field_name, v, rule.type_str, <<"0">>, IntMax(rule.type_str)>>))

\* Mutant: only invalid digits are reported, an overflow passes.
signed_check_digits_only(rule, v, errs) ==
  LET e == ParseInt(rule.type_str, v)
  IN  IF e # "Ok" /\ ContainsInvalidDigit(IntErrorToString(e))
        THEN ErrorsAdd(errs, rule.field_name,
               ValidationError(rule.field_name, "MalformedNumber", <<rule.field_name, v>>))
      ELSE errs

signed_check(rule, v, errs) ==
  LET e == ParseInt(rule.type_str, v)
  IN  IF e = "Ok" THEN errs
      ELSE IF ContainsInvalidDigit(IntErrorToString(e))
        THEN ErrorsAdd(errs, rule.field_name,
               ValidationError(rule.field_name, "MalformedNumber", <<rule.field_name, v>>))
      ELSE ErrorsAdd(errs, rule.field_name,
               ValidationError(rule.field_name, "OutOfRange",
                 <<rule.field_name, v, rule.type_str,
                   <<"-">> \o IntMinMagnitude(rule.type_str), IntMax(rule.type_str)>>))

float_check(rule, v, errs) ==
  IF ParseFloatOk(v) THEN errs
  ELSE ErrorsAdd(errs, rule.field_name,
         ValidationError(rule.field_name, "InvalidFloat", <<rule.field_name, v>>))

\* Mutant: the value is not lowercased before the match.
bool_check_case_sensitive(rule, v, errs) ==
  IF v \in {<<"t","r","u","e">>, <<"f","a","l","s","e">>, <<"1">>, <<"0">>}
    THEN errs
  ELSE ErrorsAdd(errs, rule.field_name,
         ValidationError(rule.field_name, "InvalidBoolean", <<rule.field_name, v>>))

bool_check(rule, v, errs) ==
  IF ToLowercase(v) \in {<<"t","r","u","e">>, <<"f","a","l","s","e">>, <<"1">>, <<"0">>}
    THEN errs
  ELSE ErrorsAdd(errs, rule.field_name,
         ValidationError(rule.field_name, "InvalidBoolean", <<rule.field_name, v>>))

\* value.chars().count()
CharsCount(v) == Len(v)

\* Mutant: the bounds are exclusive (<= and >= for < and >).
string_check_exclusive(rule, v, errs) ==
  LET min == rule.validation.min_length
      max == rule.validation.max_length
      len == CharsCount(v)
  IN  IF IsSome(min) /\ IsSome(max)
        THEN IF len <= Unwrap(min) \/ len >= Unwrap(max)
               THEN ErrorsAdd(errs, rule.field_name,
                      ValidationError(rule.field_name, "StringLengthRange",
                        <<rule.field_name, Unwrap(min), Unwrap(max), len>>))
               ELSE errs
      ELSE IF IsSome(min)
        THEN IF len <= Unwrap(min)
               THEN ErrorsAdd(errs, rule.field_name,
                      ValidationError(rule.field_name, "StringLengthMin",
                        <<rule.field_name, Unwrap(min), len>>))
               ELSE errs
      ELSE IF IsSome(max)
        THEN IF len >= Unwrap(max)
               THEN ErrorsAdd(errs, rule.field_name,
                      ValidationError(rule.field_name, "StringLengthMax",
                        <<rule.field_name, Unwrap(max), len>>))
               ELSE errs
      ELSE errs

string_check(rule, v, errs) ==
  LET min == rule.validation.min_length
      max == rule.validation.max_length
      len == CharsCount(v)
  IN  IF IsSome(min) /\ IsSome(max)
        THEN IF len < Unwrap(min) \/ len > Unwrap(max)
               THEN ErrorsAdd(errs, rule.field_name,
                      ValidationError(rule.field_name, "StringLengthRange",
                        <<rule.field_name, Unwrap(min), Unwrap(max), len>>))
               ELSE errs
      ELSE IF IsSome(min)
        THEN IF len < Unwrap(min)
               THEN ErrorsAdd(errs, rule.field_name,
                      ValidationError(rule.field_name, "StringLengthMin",
                        <<rule.field_name, Unwrap(min), len>>))
               ELSE errs
      ELSE IF IsSome(max)
        THEN IF len > Unwrap(max)
               THEN ErrorsAdd(errs, rule.field_name,
                      ValidationError(rule.field_name, "StringLengthMax",
                        <<rule.field_name, Unwrap(max), len>>))
               ELSE errs
      ELSE errs

opaque_check(rule, v, errs) ==
  IF ParseOk(rule.type_str, v) THEN errs
  ELSE ErrorsAdd(errs, rule.field_name,
         ValidationError(rule.field_name, "InvalidOpaqueValue",
                         <<rule.field_name, v, rule.type_str>>))

\* match type_str.as_str() { ... }, each arm under if let Some(value).
value_check(rule, value, errs) ==
  IF IsNone(value) THEN errs
  ELSE LET v == Unwrap(value)
       IN  CASE rule.type_str \in UnsignedTypes -> unsigned_check(rule, v, errs)
             [] rule.type_str \in SignedTypes -> signed_check(rule, v, errs)
             [] rule.type_str \in FloatTypes -> float_check(rule, v, errs)
             [] rule.type_str = "bool" -> bool_check(rule, v, errs)
             [] rule.type_str = "String" -> string_check(rule, v, errs)
             [] OTHER -> opaque_check(rule, v, errs)

\* #required_check #value_check of one field.
field_check(rule, value, errs) ==
  value_check(rule, value, required_check(rule, value, errs))

\* Mutant: fail-fast, the checks stop at the first field with an error.
RECURSIVE run_checks_fail_fast(_, _, _, _)
run_checks_fail_fast(rules, self, i, errs) ==
  IF i > Len(rules) \/ ~ErrorsIsEmpty(errs) THEN errs
  ELSE run_checks_fail_fast(rules, self, i + 1, field_check(rules[i], self[i], errs))

\* #(#validation_checks)*: the checks of all fields, in declaration order.
RECURSIVE run_checks(_, _, _, _)
run_checks(rules, self, i, errs) ==
  IF i > Len(rules) THEN errs
  ELSE run_checks(rules, self, i + 1, field_check(rules[i], self[i], errs))

\* The body of validate(): the report and the returned Result.
validate(rules, self) ==
  LET errs == run_checks(rules, self, 1, ValidationErrorsNew)
  IN  [errors |-> errs, result |-> IF ErrorsIsEmpty(errs) THEN "Ok" ELSE "Err"]

(***************************** the program **********************************)

\* Structs handed to the macro: one field of any type and attribute list.
FieldStructs == {<<[ty |-> t, attrs |-> a]>> : t \in FieldTypes, a \in AttrLists}

\* Structs handed to the macro: up to NFields fields taken from Record.
RecordStructs ==
  UNION {[1..n -> {RecordFields[i] : i \in DOMAIN RecordFields}] : n \in 1..NFields}

Init ==
  /\ schema = <<>>
  /\ raw = <<>>
  /\ errors = <<>>
  /\ result = "none"
  /\ pc = "derive"
  /\ read = 0
  /\ given = <<>>
  /\ prev = None

\* raw_struct_derive: macro expansion of #[derive(RawStruct)].
Derive(structs) ==
  /\ pc = "derive"
  /\ \E fields \in structs : schema' = validation_checks(fields)
  /\ pc' = "read"
  /\ UNCHANGED <<raw, errors, result, read, given, prev>>

\* rdr.deserialize() yields the next row as a RawRecord.
Deserialize(cells, maxRows) ==
  /\ pc = "read"
  /\ read < maxRows
  /\ \E row \in [1..Len(schema) -> cells] : raw' = row /\ given' = row
  /\ read' = read + 1
  /\ pc' = "validate"
  /\ UNCHANGED <<schema, errors, result, prev>>

\* raw.validate()
Validate ==
  /\ pc = "validate"
  /\ LET out == validate(schema, raw)
     IN  /\ errors' = out.errors
         /\ result' = out.result
  /\ pc' = "print"
  /\ UNCHANGED <<schema, raw, read, given, prev>>

\* println! of the report (on Err) and of the separator; the loop goes on.
PrintReport ==
  /\ pc = "print"
  /\ prev' = Some([raw |-> raw, errors |-> errors, result |-> result])
  /\ pc' = "read"
  /\ UNCHANGED <<schema, raw, errors, result, read, given>>

\* rdr.deserialize() is exhausted: main returns Ok(()).
EndOfInput ==
  /\ pc = "read"
  /\ read > 0
  /\ pc' = "done"
  /\ UNCHANGED <<schema, raw, errors, result, read, given, prev>>

DeriveRecord == Derive(RecordStructs)
DeserializeRow == Deserialize(RecordCells, MaxRows)

DeriveField == Derive(FieldStructs)
DeserializeCell == Deserialize(Cells, 1)

\* The driver over structs built from Record's fields, several rows.
Next == DeriveRecord \/ DeserializeRow \/ Validate \/ PrintReport \/ EndOfInput

Spec == Init /\ [][Next]_vars

\* One field of any declared type and constraint, one row of any cell.
NextField == DeriveField \/ DeserializeCell \/ Validate \/ PrintReport \/ EndOfInput

SpecField == Init /\ [][NextField]_vars

(******************************* claims *************************************)
\* validate() has returned for the current row.
Validated == pc = "print"

Fields == DOMAIN schema

ErrorsOf(i) ==
  IF schema[i].field_name \in DOMAIN errors THEN errors[schema[i].field_name] ELSE <<>>

ErrorKinds(i) == [k \in 1..Len(ErrorsOf(i)) |-> ErrorsOf(i)[k].message.kind]

\* The errors the check of field i alone yields on the current row.
OwnErrors(i) == field_check(schema[i], raw[i], << >>)

Present(i) == IsSome(raw[i])

LengthKinds == {"StringLengthRange", "StringLengthMin", "StringLengthMax"}

\* C1: validate returns Ok exactly when no field's check yields an error;
\* the report it returns has an entry for exactly the fields whose check
\* yields an error, whatever the earlier fields did.
C1_ConjunctionLaw ==
  Validated =>
    /\ result \in {"Ok", "Err"}
    /\ (result = "Ok") <=> (\A i \in Fields : OwnErrors(i) = << >>)
    /\ DOMAIN errors = {schema[i].field_name : i \in {j \in Fields : OwnErrors(j) # << >>}}
    /\ \A i \in Fields : OwnErrors(i) # << >> => ErrorsOf(i) = OwnErrors(i)[schema[i].field_name]

\* A row whose first field and a later field both fail: both are reported.
C1_Witness ==
  /\ Validated
  /\ result = "Err"
  /\ Len(schema) >= 2
  /\ ErrorKinds(1) = <<"OutOfRange">> \/ ErrorKinds(1) = <<"NegativeValueForUnsigned">>
  /\ ErrorKinds(2) = <<"RequiredFieldMissing">>

\* C2 as stated: a present value of any kind that validate accepts parses
\* into the declared type.
C2_RoundTripAllKinds ==
  Validated =>
    \A i \in Fields :
      (Present(i) /\ ErrorsOf(i) = << >>) => ParseOk(schema[i].type_str, Unwrap(raw[i]))

\* C2 amended: the same for every kind but bool, and for bool when the
\* accepted text is literally "true" or "false".
C2_RoundTripExceptBoolLiterals ==
  Validated =>
    \A i \in Fields :
      ( /\ Present(i)
        /\ ErrorsOf(i) = << >>
        /\ \/ schema[i].type_str # "bool"
           \/ Unwrap(raw[i]) \in {<<"t","r","u","e">>, <<"f","a","l","s","e">>} )
      => ParseOk(schema[i].type_str, Unwrap(raw[i]))

\* An i8 field accepted "-128".
C2_Witness ==
  /\ Validated
  /\ schema[1].type_str = "i8"
  /\ raw[1] = Some(<<"-","1","2","8">>)
  /\ result = "Ok"

\* Optional sign, then one or more decimal digits.
WellFormedInteger(v) ==
  LET body == IF Len(v) > 0 /\ v[1] \in {"+", "-"} THEN Tail(v) ELSE v
  IN  Len(body) > 0 /\ \A k \in 1..Len(body) : body[k] \in Digits

\* C3: an integer field whose present value fails to parse (for unsigned,
\* one that does not start with '-') gets OutOfRange exactly when the text
\* is a well-formed number, and MalformedNumber for every other text, the
\* empty text included.
C3_RangeIffWellFormed ==
  Validated =>
    \A i \in Fields :
      ( /\ schema[i].type_str \in UnsignedTypes \cup SignedTypes
        /\ Present(i)
        /\ ParseInt(schema[i].type_str, Unwrap(raw[i])) # "Ok"
        /\ ~(schema[i].type_str \in UnsignedTypes /\ Len(Unwrap(raw[i])) > 0
               /\ Unwrap(raw[i])[1] = "-") )
      => ErrorKinds(i) = IF WellFormedInteger(Unwrap(raw[i]))
                           THEN <<"OutOfRange">> ELSE <<"MalformedNumber">>

\* C4: a required field of any kind and constraint set whose value is
\* absent gets exactly one error, RequiredFieldMissing.
C4_RequiredAbsent ==
  Validated =>
    \A i \in Fields :
      (~schema[i].is_optional /\ ~Present(i)) => ErrorKinds(i) = <<"RequiredFieldMissing">>

\* A required String field with a length bound and no value.
C4_Witness ==
  /\ Validated
  /\ ~schema[1].is_optional
  /\ schema[1].type_str = "String"
  /\ IsSome(schema[1].validation.min_length)
  /\ ~Present(1)
  /\ result = "Err"

\* C5: an optional field of any kind whose value is absent gets no error,
\* a String field with a declared length bound included.
C5_OptionalAbsent ==
  Validated =>
    \A i \in Fields : (schema[i].is_optional /\ ~Present(i)) => ErrorsOf(i) = << >>

\* An optional String field with min_length and no value: Ok.
C5_Witness ==
  /\ Validated
  /\ schema[1].is_optional
  /\ schema[1].type_str = "String"
  /\ IsSome(schema[1].validation.min_length)
  /\ ~Present(1)
  /\ result = "Ok"

\* C6: an unsigned field whose present value begins with '-' gets
\* NegativeValueForUnsigned and nothing else, whatever follows the sign.
C6_NegativeForUnsigned ==
  Validated =>
    \A i \in Fields :
      ( /\ schema[i].type_str \in UnsignedTypes
        /\ Present(i)
        /\ Len(Unwrap(raw[i])) > 0
        /\ Unwrap(raw[i])[1] = "-" )
      => ErrorKinds(i) = <<"NegativeValueForUnsigned">>

\* A u16 field given "-3232" (row 3 of csv_data).
C6_Witness ==
  /\ Validated
  /\ schema[1].type_str = "u16"
  /\ raw[1] = Some(<<"-","3","2","3","2">>)
  /\ ErrorKinds(1) = <<"NegativeValueForUnsigned">>

ToUpperChar(c) ==
  CASE c = "t" -> "T" [] c = "r" -> "R" [] c = "u" -> "U" [] c = "e" -> "E"
    [] c = "f" -> "F" [] c = "a" -> "A" [] c = "l" -> "L" [] c = "s" -> "S"
    [] OTHER -> c

EqIgnoreCase(v, lit) ==
  Len(v) = Len(lit) /\ \A k \in 1..Len(v) : v[k] \in {lit[k], ToUpperChar(lit[k])}

BoolLiterals == {<<"t","r","u","e">>, <<"f","a","l","s","e">>, <<"1">>, <<"0">>}

\* C7: a bool field with a present value gets no error exactly when the
\* value equals "true", "false", "1" or "0" up to letter case, and
\* InvalidBoolean otherwise.
C7_BooleanLiterals ==
  Validated =>
    \A i \in Fields :
      (schema[i].type_str = "bool" /\ Present(i)) =>
        ErrorKinds(i) = IF \E lit \in BoolLiterals : EqIgnoreCase(Unwrap(raw[i]), lit)
                          THEN << >> ELSE <<"InvalidBoolean">>

\* A bool field accepted "TRUE".
C7_Witness ==
  /\ Validated
  /\ schema[1].type_str = "bool"
  /\ raw[1] = Some(<<"T","R","U","E">>)
  /\ result = "Ok"

\* C8: a String field with a present value of L characters gets a length
\* error exactly when a declared min_length exceeds L or a declared
\* max_length is below L; the bounds are inclusive and without bounds no
\* text is rejected.
C8_LengthBounds ==
  Validated =>
    \A i \in Fields :
      (schema[i].type_str = "String" /\ Present(i)) =>
        LET L == Len(Unwrap(raw[i]))
            min == schema[i].validation.min_length
            max == schema[i].validation.max_length
            outside == \/ IsSome(min) /\ L < Unwrap(min)
                       \/ IsSome(max) /\ L > Unwrap(max)
        IN  /\ outside => (Len(ErrorKinds(i)) = 1 /\ ErrorKinds(i)[1] \in LengthKinds)
            /\ ~outside => ErrorKinds(i) = << >>

\* min_length = 2, max_length = 5 and a text of 5 characters: accepted.
C8_Witness ==
  /\ Validated
  /\ schema[1].type_str = "String"
  /\ schema[1].validation = [min_length |-> Some(2), max_length |-> Some(5)]
  /\ raw[1] = Some(<<"h","e","l","l","o">>)
  /\ result = "Ok"

\* C9: the report never holds more than one error for a field, and holds
\* entries for fields of the struct only.
C9_AtMostOneErrorPerField ==
  /\ DOMAIN errors \subseteq {schema[i].field_name : i \in Fields}
  /\ \A name \in DOMAIN errors : Len(errors[name]) = 1

\* A required u8 field with a present, malformed value: one error.
C9_Witness ==
  /\ Validated
  /\ ~schema[1].is_optional
  /\ schema[1].type_str = "u8"
  /\ raw[1] = Some(<<"1","2","a">>)
  /\ ErrorKinds(1) = <<"MalformedNumber">>

\* C10: the report of a row depends on that row alone: a row equal to
\* the row before it gets the same report and result, whether or not the
\* row before it had errors (the loop goes on after an Err); and validate
\* leaves the record as it was deserialized.
C10_RowsIndependent ==
  /\ (Validated /\ IsSome(prev) /\ Unwrap(prev).raw = raw) =>
        /\ errors = Unwrap(prev).errors
        /\ result = Unwrap(prev).result
  /\ Validated => raw = given

\* The second of two equal rows with errors has been validated.
C10_Witness ==
  /\ Validated
  /\ IsSome(prev)
  /\ Unwrap(prev).raw = raw
  /\ Unwrap(prev).result = "Err"
  /\ result = "Err"

====
